---- MODULE Spec2Model ----
(***************************************************************************)
(* Model of src/src/services/spacex.ts: the two async functions            *)
(* getLatestsLaunches and getLaunchById, the fetch transport they await,   *)
(* and the JSON conversions (JSON.stringify of the request body, the       *)
(* Response.json() parse of the response body) they go through.            *)
(***************************************************************************)
EXTENDS Integers, Sequences, FiniteSets, TLC

(***************************************************************************)
(* Bounds of the model.                                                    *)
(***************************************************************************)
\* Invocations that may be in flight in one behaviour.
MaxCalls == 2
\* Launch records in the docs array of a served envelope: 0 .. MaxDocs.
MaxDocs == 2
\* Math.random() is drawn from the grid k / RandDen, k in 0 .. RandDen - 1.
RandDen == 2

(***************************************************************************)
(* JavaScript values.  A value is a tagged record; an object keeps its     *)
(* members in insertion order, as JavaScript does.                         *)
(***************************************************************************)
Undefined == [t |-> "undefined"]
JNull == [t |-> "null"]
JBool(b) == [t |-> "bool", b |-> b]
\* The number n / d (d > 0).
JNum(n, d) == [t |-> "num", n |-> n, d |-> d]
JStr(s) == [t |-> "str", s |-> s]
JArr(e) == [t |-> "arr", e |-> e]
JObj(m) == [t |-> "obj", m |-> m]
Member(k, v) == [k |-> k, v |-> v]

(***************************************************************************)
(* JSON text, as the sequence of its lexical tokens.                       *)
(***************************************************************************)
Punct(s) == [k |-> "p", s |-> s]
Lit(s) == [k |-> "lit", s |-> s]
StrTok(s) == [k |-> "str", s |-> s]
NumTok(n, d) == [k |-> "num", n |-> n, d |-> d]
\* Text that is no JSON token at all (an HTML error page, say).
Junk(s) == [k |-> "junk", s |-> s]

RECURSIVE JSONstringify(_), StringifyElements(_, _), StringifyMembers(_, _, _)
\* JSON.stringify(v) for a value that is not undefined.
JSONstringify(v) ==
    CASE v.t = "null" -> <<Lit("null")>>
      [] v.t = "bool" -> <<Lit(IF v.b THEN "true" ELSE "false")>>
      [] v.t = "num" -> <<NumTok(v.n, v.d)>>
      [] v.t = "str" -> <<StrTok(v.s)>>
      [] v.t = "arr" -> <<Punct("[")>> \o StringifyElements(v.e, 1) \o <<Punct("]")>>
      [] v.t = "obj" -> <<Punct("{")>> \o StringifyMembers(v.m, 1, TRUE) \o <<Punct("}")>>

\* The elements e[i..] of an array; an undefined element is written null.
StringifyElements(e, i) ==
    IF i > Len(e) THEN <<>>
    ELSE (IF i > 1 THEN <<Punct(",")>> ELSE <<>>)
         \o (IF e[i].t = "undefined" THEN <<Lit("null")>> ELSE JSONstringify(e[i]))
         \o StringifyElements(e, i + 1)

\* The members m[i..] of an object; a member whose value is undefined is left out.
StringifyMembers(m, i, first) ==
    IF i > Len(m) THEN <<>>
    ELSE IF m[i].v.t = "undefined" THEN StringifyMembers(m, i + 1, first)
    ELSE (IF first THEN <<>> ELSE <<Punct(",")>>)
         \o <<StrTok(m[i].k), Punct(":")>> \o JSONstringify(m[i].v)
         \o StringifyMembers(m, i + 1, FALSE)

\* A parse that failed (JSON.parse throws SyntaxError).
ParseFail == [ok |-> FALSE, v |-> Undefined, next |-> 0]
ParseOk(v, next) == [ok |-> TRUE, v |-> v, next |-> next]

IsPunct(ts, i, s) == i <= Len(ts) /\ ts[i].k = "p" /\ ts[i].s = s

\* m with key k set to v: a repeated key keeps its place and takes the last value.
SetMember(m, k, v) ==
    IF \E j \in 1..Len(m) : m[j].k = k
    THEN [j \in 1..Len(m) |-> IF m[j].k = k THEN Member(k, v) ELSE m[j]]
    ELSE Append(m, Member(k, v))

RECURSIVE ParseValue(_, _), ParseElements(_, _, _), ParseMembers(_, _, _)
\* The JSON value that starts at token i: [ok, v, next], next the token after it.
ParseValue(ts, i) ==
    IF i > Len(ts) THEN ParseFail
    ELSE LET tk == ts[i] IN
         CASE tk.k = "lit" ->
                (CASE tk.s = "null" -> ParseOk(JNull, i + 1)
                   [] tk.s = "true" -> ParseOk(JBool(TRUE), i + 1)
                   [] tk.s = "false" -> ParseOk(JBool(FALSE), i + 1)
                   [] OTHER -> ParseFail)
           [] tk.k = "num" -> ParseOk(JNum(tk.n, tk.d), i + 1)
           [] tk.k = "str" -> ParseOk(JStr(tk.s), i + 1)
           [] tk.k = "p" /\ tk.s = "[" ->
                IF IsPunct(ts, i + 1, "]") THEN ParseOk(JArr(<<>>), i + 2)
                ELSE ParseElements(ts, i + 1, <<>>)
           [] tk.k = "p" /\ tk.s = "{" ->
                IF IsPunct(ts, i + 1, "}") THEN ParseOk(JObj(<<>>), i + 2)
                ELSE ParseMembers(ts, i + 1, <<>>)
           [] OTHER -> ParseFail

\* The elements of an array from token i on, acc the elements read so far.
ParseElements(ts, i, acc) ==
    LET r == ParseValue(ts, i) IN
    IF ~r.ok THEN ParseFail
    ELSE IF IsPunct(ts, r.next, ",") THEN ParseElements(ts, r.next + 1, Append(acc, r.v))
    ELSE IF IsPunct(ts, r.next, "]") THEN ParseOk(JArr(Append(acc, r.v)), r.next + 1)
    ELSE ParseFail

\* The members of an object from token i on, acc the members read so far.
ParseMembers(ts, i, acc) ==
    IF ~(i <= Len(ts) /\ ts[i].k = "str" /\ IsPunct(ts, i + 1, ":")) THEN ParseFail
    ELSE LET r == ParseValue(ts, i + 2) IN
         IF ~r.ok THEN ParseFail
         ELSE IF IsPunct(ts, r.next, ",")
              THEN ParseMembers(ts, r.next + 1, SetMember(acc, ts[i].s, r.v))
         ELSE IF IsPunct(ts, r.next, "}")
              THEN ParseOk(JObj(SetMember(acc, ts[i].s, r.v)), r.next + 1)
         ELSE ParseFail

\* JSON.parse(text): the whole text must be one value.
JSONparse(ts) ==
    LET r == ParseValue(ts, 1) IN
    IF r.ok /\ r.next = Len(ts) + 1 THEN r ELSE ParseFail

(***************************************************************************)
(* Property access and destructuring.                                      *)
(***************************************************************************)
\* v[k] for a value v that is neither null nor undefined and a key k that no
\* prototype defines: the member's value for an object that has it, else undefined.
GetProp(v, k) ==
    IF v.t = "obj" /\ \E j \in 1..Len(v.m) : v.m[j].k = k
    THEN v.m[CHOOSE j \in 1..Len(v.m) : v.m[j].k = k].v
    ELSE Undefined

\* Variant: the destructuring tolerates null, as (v ?? {}).docs would.
CanDestructureAnything(v) == TRUE

\* const { docs: launches } = v  throws TypeError when v is null or undefined.
CanDestructure(v) == v.t \notin {"null", "undefined"}

(***************************************************************************)
(* The remote service and the transport (fetch).                           *)
(***************************************************************************)
LaunchesEndpoint == "https://api.spacexdata.com/v5/launches/"
Ids == {"5eb87cd9ffd86e000604b32a", "5eb87cdaffd86e000604b32b"}

Launch(id, name) == JObj(<<Member("id", JStr(id)), Member("name", JStr(name))>>)
FalconSat == Launch("5eb87cd9ffd86e000604b32a", "FalconSat")
DemoSat == Launch("5eb87cdaffd86e000604b32b", "DemoSat")
LaunchRecords == {FalconSat, DemoSat}

\* The response envelope of the query endpoint: docs and pagination metadata.
Envelope(docs) ==
    JObj(<<Member("docs", JArr(docs)),
           Member("totalDocs", JNum(Len(docs), 1)),
           Member("hasNextPage", JBool(FALSE))>>)
DocsLists == UNION {[1..n -> LaunchRecords] : n \in 0..MaxDocs}
Envelopes == {Envelope(d) : d \in DocsLists}

\* JSON values of another shape than the caller expects.
ErrorShaped ==
    {JNull, JStr("Not Found"), JArr(<<FalconSat>>), JObj(<<>>),
     JObj(<<Member("docs", JNull)>>)}

\* A body on the wire: its text, and the value the service serialised (origin).
NotJSON == [t |-> "notjson"]
Served(v) == [origin |-> v, text |-> JSONstringify(v)]
Garbage(ts) == [origin |-> NotJSON, text |-> ts]
NonJSONBodies ==
    {Garbage(<<>>),
     Garbage(<<Junk("<!DOCTYPE html>")>>),
     Garbage(SubSeq(JSONstringify(FalconSat), 1, 4)),
     Garbage(JSONstringify(Envelope(<<>>)) \o <<Junk("\n--")>>)}

\* Every body the transport may deliver, and the statuses it may carry.
Payloads == {Served(v) : v \in Envelopes \cup LaunchRecords \cup ErrorShaped} \cup NonJSONBodies
Statuses == {200, 404, 500}
\* The bodies and statuses of the runs with several invocations in flight.
StubPayloads ==
    {Served(Envelope(<<FalconSat>>)), Served(DemoSat), Garbage(<<Junk("<!DOCTYPE html>")>>)}
StubStatuses == {200, 500}
\* One body for each way an invocation can go on once its body is read.
PathPayloads == {Served(DemoSat), Served(JNull), Garbage(<<>>)}

\* Math.random(): a number of [0, 1).
MathRandom == {JNum(k, RandDen) : k \in 0..(RandDen - 1)}
Times(x, c) == JNum(x.n * c, x.d)

(***************************************************************************)
(* State.                                                                  *)
(***************************************************************************)
Calls == 1..MaxCalls

VARIABLES
    op,       \* op[i]: the function invocation i runs ("none" before it starts)
    arg,      \* arg[i]: the id passed to getLaunchById
    pc,       \* pc[i]: the source line invocation i is at, or how it settled
    res,      \* res[i]: the Response fetch resolved with
    body,     \* body[i]: the body res.json() read
    launch,   \* launch[i]: the local launches (line 20) or launch (line 27)
    result,   \* result[i]: the value the invocation's promise is fulfilled with
    err,      \* err[i]: the reason the invocation's promise is rejected with
    sent,     \* the requests handed to fetch, in order
    console   \* what console.log has written, in order
vars == <<op, arg, pc, res, body, launch, result, err, sent, console>>

NoResponse == [status |-> 0]
Unread == [origin |-> [t |-> "unread"], text |-> <<>>]

Init ==
    /\ op = [i \in Calls |-> "none"]
    /\ arg = [i \in Calls |-> ""]
    /\ pc = [i \in Calls |-> "idle"]
    /\ res = [i \in Calls |-> NoResponse]
    /\ body = [i \in Calls |-> Unread]
    /\ launch = [i \in Calls |-> Undefined]
    /\ result = [i \in Calls |-> Undefined]
    /\ err = [i \in Calls |-> ""]
    /\ sent = <<>>
    /\ console = <<>>

\* Invocation i is the next one to start.
NextToStart(i) == pc[i] = "idle" /\ \A j \in Calls : j < i => pc[j] # "idle"

(***************************************************************************)
(* getLatestsLaunches, lines 3-22.                                         *)
(***************************************************************************)
\* Variant: the sort direction is descending.
QueryBodyDescending(rnd) ==
    JObj(<<Member("query", JObj(<<>>)),
           Member("options",
                  JObj(<<Member("sort", JObj(<<Member("date_utc", JStr("desc"))>>)),
                         Member("limit", JNum(10, 1)),
                         Member("pagination", JBool(TRUE)),
                         Member("page", Times(rnd, 21))>>))>>)

\* The object literal of lines 7-17, page being Math.random() * 21.
QueryBody(rnd) ==
    JObj(<<Member("query", JObj(<<>>)),
           Member("options",
                  JObj(<<Member("sort", JObj(<<Member("date_utc", JStr("asc"))>>)),
                         Member("limit", JNum(10, 1)),
                         Member("pagination", JBool(TRUE)),
                         Member("page", Times(rnd, 21))>>))>>)

\* The request of lines 4-18.
QueryRequest(i, rnd) ==
    [call |-> i,
     url |-> LaunchesEndpoint \o "query",
     method |-> "POST",
     headers |-> <<Member("Content-type", "application/json")>>,
     body |-> JSONstringify(QueryBody(rnd))]

\* Lines 4-18: build the request, hand it to fetch, suspend at the await.
getLatestsLaunches(i, rnd) ==
    /\ NextToStart(i)
    /\ op' = [op EXCEPT ![i] = "getLatestsLaunches"]
    /\ sent' = Append(sent, QueryRequest(i, rnd))
    /\ pc' = [pc EXCEPT ![i] = "L4"]
    /\ UNCHANGED <<arg, res, body, launch, result, err, console>>

(***************************************************************************)
(* getLaunchById, lines 24-30.                                             *)
(***************************************************************************)
\* The request of line 25: fetch's defaults, the id spliced into the URL.
LaunchRequest(i, id) ==
    [call |-> i,
     url |-> LaunchesEndpoint \o id,
     method |-> "GET",
     headers |-> <<>>,
     body |-> <<>>]

\* Line 25: hand the request to fetch, suspend at the await.
getLaunchById(i, id) ==
    /\ NextToStart(i)
    /\ op' = [op EXCEPT ![i] = "getLaunchById"]
    /\ arg' = [arg EXCEPT ![i] = id]
    /\ sent' = Append(sent, LaunchRequest(i, id))
    /\ pc' = [pc EXCEPT ![i] = "L25"]
    /\ UNCHANGED <<res, body, launch, result, err, console>>

(***************************************************************************)
(* The awaits.                                                             *)
(***************************************************************************)
AwaitsFetch(i) == pc[i] \in {"L4", "L25"}
AwaitsJson(i) == pc[i] \in {"L20", "L27"}

\* The promise of the async function is rejected: nothing catches.
Reject(i, reason) ==
    /\ pc' = [pc EXCEPT ![i] = "rejected"]
    /\ err' = [err EXCEPT ![i] = reason]

\* Variant: the status is inspected, an error status throws (if (!res.ok) throw).
FetchResolveChecked(i, status) ==
    /\ AwaitsFetch(i)
    /\ res' = [res EXCEPT ![i] = [status |-> status]]
    /\ IF status >= 400
       THEN Reject(i, "Error: HTTP status")
       ELSE /\ pc' = [pc EXCEPT ![i] = IF pc[i] = "L4" THEN "L20" ELSE "L27"]
            /\ err' = err
    /\ UNCHANGED <<op, arg, body, launch, result, sent, console>>

\* fetch resolves with a Response of any status; the function calls res.json()
\* (line 20 or 27) and suspends again.
FetchResolve(i, status) ==
    /\ AwaitsFetch(i)
    /\ res' = [res EXCEPT ![i] = [status |-> status]]
    /\ pc' = [pc EXCEPT ![i] = IF pc[i] = "L4" THEN "L20" ELSE "L27"]
    /\ UNCHANGED <<op, arg, body, launch, result, err, sent, console>>

\* Variant: a failed fetch is retried, the same request is sent again.
FetchRejectRetried(i) ==
    /\ AwaitsFetch(i)
    /\ sent' = Append(sent, sent[CHOOSE k \in 1..Len(sent) : sent[k].call = i])
    /\ UNCHANGED <<op, arg, pc, res, body, launch, result, err, console>>

\* fetch rejects (DNS failure, connection refused): the await throws.
FetchReject(i) ==
    /\ AwaitsFetch(i)
    /\ Reject(i, "TypeError: fetch failed")
    /\ UNCHANGED <<op, arg, res, body, launch, result, sent, console>>

\* Variant: the envelope is not unwrapped, the whole body is returned.
LatestsContinueWhole(i, v) ==
    /\ launch' = [launch EXCEPT ![i] = v]
    /\ result' = [result EXCEPT ![i] = v]
    /\ pc' = [pc EXCEPT ![i] = "fulfilled"]
    /\ err' = err

\* Lines 20-21 once res.json() has resolved with v.
LatestsContinue(i, v) ==
    IF CanDestructure(v)
    THEN /\ launch' = [launch EXCEPT ![i] = GetProp(v, "docs")]
         /\ result' = [result EXCEPT ![i] = GetProp(v, "docs")]
         /\ pc' = [pc EXCEPT ![i] = "fulfilled"]
         /\ err' = err
    ELSE /\ Reject(i, "TypeError: cannot destructure")
         /\ UNCHANGED <<launch, result>>

\* Variant: the body is unwrapped as the list operation unwraps it.
LaunchContinueUnwrapped(i, v) ==
    /\ launch' = [launch EXCEPT ![i] = GetProp(v, "docs")]
    /\ pc' = [pc EXCEPT ![i] = "L28"]
    /\ UNCHANGED <<result, err>>

\* Variant: launch is one module-level variable, shared by the invocations.
LaunchContinueShared(i, v) ==
    /\ launch' = [j \in Calls |-> v]
    /\ pc' = [pc EXCEPT ![i] = "L28"]
    /\ UNCHANGED <<result, err>>

\* Variant: the record is stamped with the number of requests sent so far.
LaunchContinueStamped(i, v) ==
    /\ launch' = [launch EXCEPT ![i] =
                      IF v.t = "obj"
                      THEN JObj(Append(v.m, Member("request", JNum(Len(sent), 1))))
                      ELSE v]
    /\ pc' = [pc EXCEPT ![i] = "L28"]
    /\ UNCHANGED <<result, err>>

\* Variant: the body is awaited again instead of going on to line 28.
LaunchContinueAwaitsAgain(i, v) ==
    /\ launch' = [launch EXCEPT ![i] = v]
    /\ pc' = [pc EXCEPT ![i] = "L27"]
    /\ UNCHANGED <<result, err>>

\* Line 27 once res.json() has resolved with v: the whole body is the launch.
LaunchContinue(i, v) ==
    /\ launch' = [launch EXCEPT ![i] = v]
    /\ pc' = [pc EXCEPT ![i] = "L28"]
    /\ UNCHANGED <<result, err>>

\* res.json() has read the body p: it resolves with the parsed value, or
\* rejects with SyntaxError, and the function resumes.
JsonResolve(i, p) ==
    /\ AwaitsJson(i)
    /\ body' = [body EXCEPT ![i] = p]
    /\ LET r == JSONparse(p.text) IN
       IF ~r.ok
       THEN Reject(i, "SyntaxError") /\ UNCHANGED <<launch, result>>
       ELSE IF pc[i] = "L20" THEN LatestsContinue(i, r.v) ELSE LaunchContinue(i, r.v)
    /\ UNCHANGED <<op, arg, res, sent, console>>

\* res.json() rejects because the body stream failed.
JsonReject(i) ==
    /\ AwaitsJson(i)
    /\ Reject(i, "TypeError: body stream failed")
    /\ UNCHANGED <<op, arg, res, body, launch, result, sent, console>>

\* Variant: the diagnostic write is left out.
LogSkipped(i) ==
    /\ pc[i] = "L28"
    /\ pc' = [pc EXCEPT ![i] = "L29"]
    /\ UNCHANGED <<op, arg, res, body, launch, result, err, sent, console>>

\* Line 28: console.log(launch).
Log(i) ==
    /\ pc[i] = "L28"
    /\ console' = Append(console, [call |-> i, v |-> launch[i]])
    /\ pc' = [pc EXCEPT ![i] = "L29"]
    /\ UNCHANGED <<op, arg, res, body, launch, result, err, sent>>

\* Line 29: return launch.
Return(i) ==
    /\ pc[i] = "L29"
    /\ result' = [result EXCEPT ![i] = launch[i]]
    /\ pc' = [pc EXCEPT ![i] = "fulfilled"]
    /\ UNCHANGED <<op, arg, res, body, launch, err, sent, console>>

(***************************************************************************)
(* Specifications.                                                         *)
(***************************************************************************)
\* The steps of invocation i, with Math.random() drawing from rs, the caller
\* passing an id of ids, and the transport delivering from ss and ps.
Step(i, rs, ids, ss, ps) ==
    \/ \E rnd \in rs : getLatestsLaunches(i, rnd)
    \/ \E id \in ids : getLaunchById(i, id)
    \/ \E s \in ss : FetchResolve(i, s)
    \/ FetchReject(i)
    \/ \E p \in ps : JsonResolve(i, p)
    \/ JsonReject(i)
    \/ Log(i)
    \/ Return(i)

\* Up to MaxCalls invocations, started and resumed in any order.
Next == \E i \in Calls : Step(i, MathRandom, Ids, StubStatuses, StubPayloads)
Spec == Init /\ [][Next]_vars

\* One invocation, every status and every body.
OneNext == Step(1, MathRandom, Ids, Statuses, Payloads)
OneSpec == Init /\ [][OneNext]_vars

\* Up to MaxCalls invocations in any order, one request of each function and
\* one body for each path through it.
PathNext ==
    \E i \in Calls :
        Step(i, {JNum(0, 1)}, {"5eb87cd9ffd86e000604b32a"}, StubStatuses, PathPayloads)

\* The transport settles every request and every body read, and the event
\* loop runs every continuation that is ready.
Fairness ==
    \A i \in Calls :
        /\ WF_vars((\E s \in StubStatuses : FetchResolve(i, s)) \/ FetchReject(i))
        /\ WF_vars((\E p \in PathPayloads : JsonResolve(i, p)) \/ JsonReject(i))
        /\ WF_vars(Log(i))
        /\ WF_vars(Return(i))
FairSpec == Init /\ [][PathNext]_vars /\ Fairness

(***************************************************************************)
(* What the claims speak of.                                               *)
(***************************************************************************)
Settled(i) == pc[i] \in {"fulfilled", "rejected"}
IsJSON(origin) == origin.t \notin {"notjson", "unread"}
HasMember(v, k) == v.t = "obj" /\ \E j \in 1..Len(v.m) : v.m[j].k = k
\* The requests invocation i has handed to fetch, and its console writes.
RequestsOf(i) == {k \in 1..Len(sent) : sent[k].call = i}
WritesOf(i) == {k \in 1..Len(console) : console[k].call = i}

\* C1: a getLatestsLaunches invocation whose response body is a well-formed
\* envelope with docs = d (N = Len(d) >= 0 records) is fulfilled with an array
\* of exactly N elements, element k being d[k]; for N = 0 that is the empty
\* array, neither null nor undefined.
C1_DocsReturned ==
    \A i \in Calls : \A d \in DocsLists :
        (op[i] = "getLatestsLaunches" /\ body[i].origin = Envelope(d)) =>
            /\ pc[i] = "fulfilled"
            /\ result[i].t = "arr"
            /\ Len(result[i].e) = Len(d)
            /\ \A k \in 1..Len(d) : result[i].e[k] = d[k]

C1_Witness ==
    \E i \in Calls :
        /\ op[i] = "getLatestsLaunches" /\ pc[i] = "fulfilled"
        /\ body[i].origin = Envelope(<<DemoSat, FalconSat>>)
        /\ result[i] = JArr(<<DemoSat, FalconSat>>)

\* The request body the query endpoint is meant to receive, for page n / d.
ExpectedQuery(n, d) ==
    JObj(<<Member("query", JObj(<<>>)),
           Member("options",
                  JObj(<<Member("sort", JObj(<<Member("date_utc", JStr("asc"))>>)),
                         Member("limit", JNum(10, 1)),
                         Member("pagination", JBool(TRUE)),
                         Member("page", JNum(n, d))>>))>>)

\* C2: every request of a getLatestsLaunches invocation is a POST to the query
\* endpoint with Content-type application/json, and its body is the JSON text
\* of { query: {}, options: { sort: { date_utc: "asc" }, limit: 10,
\* pagination: true, page: p } } with 0 <= p < 21: only page varies.
C2_RequestShape ==
    \A k \in 1..Len(sent) :
        op[sent[k].call] = "getLatestsLaunches" =>
            /\ sent[k].method = "POST"
            /\ sent[k].url = "https://api.spacexdata.com/v5/launches/query"
            /\ sent[k].headers = <<Member("Content-type", "application/json")>>
            /\ LET b == JSONparse(sent[k].body)
                   p == GetProp(GetProp(b.v, "options"), "page")
               IN  /\ b.ok
                   /\ p.t = "num" /\ p.d > 0
                   /\ 0 <= p.n /\ p.n < 21 * p.d
                   /\ b.v = ExpectedQuery(p.n, p.d)

C2_Witness ==
    /\ Len(sent) = 2
    /\ op[1] = "getLatestsLaunches" /\ op[2] = "getLatestsLaunches"
    /\ pc[1] = "rejected"
    /\ sent[1].body # sent[2].body

\* C3: a getLaunchById invocation whose response body is a JSON object is never
\* rejected, holds that whole object as its launch, and is fulfilled with it:
\* an object with a docs member keeps it, nothing is unwrapped.
C3_WholeBody ==
    \A i \in Calls :
        (op[i] = "getLaunchById" /\ body[i].origin.t = "obj") =>
            /\ pc[i] \in {"L28", "L29", "fulfilled"}
            /\ launch[i] = body[i].origin
            /\ (pc[i] = "fulfilled" => result[i] = body[i].origin)

C3_Witness ==
    \E i \in Calls :
        /\ op[i] = "getLaunchById" /\ pc[i] = "fulfilled"
        /\ body[i].origin = Envelope(<<FalconSat>>)
        /\ HasMember(result[i], "docs")
        /\ result[i] = Envelope(<<FalconSat>>)

\* What an invocation of o does with a body whose origin is given, whatever
\* the status: the kind of settlement, the value or the reason.
Fulfils(v) == [kind |-> "fulfilled", v |-> v, reason |-> ""]
Rejects(reason) == [kind |-> "rejected", v |-> Undefined, reason |-> reason]
DocsOf(origin) ==
    IF HasMember(origin, "docs")
    THEN origin.m[CHOOSE j \in 1..Len(origin.m) : origin.m[j].k = "docs"].v
    ELSE Undefined
ExpectedOutcome(o, origin) ==
    IF ~IsJSON(origin) THEN Rejects("SyntaxError")
    ELSE IF o = "getLaunchById" THEN Fulfils(origin)
    ELSE IF origin = JNull THEN Rejects("TypeError: cannot destructure")
    ELSE Fulfils(DocsOf(origin))
Outcome(i) == [kind |-> pc[i], v |-> result[i], reason |-> err[i]]

\* C4 as stated: with any status and a JSON body both operations complete
\* without failing, and a call fails only when the transport fails or the body
\* is not JSON.
C4_AsStated ==
    \A i \in Calls :
        /\ (res[i].status \in Statuses /\ IsJSON(body[i].origin)) => pc[i] # "rejected"
        /\ pc[i] = "rejected" =>
               err[i] \in {"TypeError: fetch failed", "TypeError: body stream failed",
                           "SyntaxError"}

\* C4, amended: the status is never inspected.  Once the body is read, the
\* invocation settles as the body alone decides, whatever the status (2xx, 4xx,
\* 5xx); and a call fails only when the transport fails (fetch or the body
\* read), the body is not JSON, or, in getLatestsLaunches, the body is the
\* JSON value null.
C4_StatusIgnored ==
    \A i \in Calls :
        /\ (Settled(i) /\ body[i] # Unread) =>
               /\ res[i].status \in Statuses
               /\ Outcome(i) = ExpectedOutcome(op[i], body[i].origin)
        /\ pc[i] = "rejected" =>
               \/ err[i] = "TypeError: fetch failed" /\ res[i] = NoResponse
               \/ err[i] = "TypeError: body stream failed" /\ body[i] = Unread
               \/ err[i] = "SyntaxError" /\ ~IsJSON(body[i].origin)
               \/ /\ err[i] = "TypeError: cannot destructure"
                  /\ op[i] = "getLatestsLaunches" /\ body[i].origin = JNull

C4_Witness ==
    \E i \in Calls :
        /\ op[i] = "getLatestsLaunches" /\ pc[i] = "fulfilled"
        /\ res[i].status = 500
        /\ body[i].origin = Envelope(<<FalconSat>>)
        /\ result[i] = JArr(<<FalconSat>>)

\* C5 as stated: a body that is not JSON rejects the call at the parse, and a
\* JSON body of whatever shape makes no call fail.
C5_AsStated ==
    \A i \in Calls :
        /\ body[i].origin = NotJSON =>
               pc[i] = "rejected" /\ err[i] = "SyntaxError" /\ result[i] = Undefined
        /\ IsJSON(body[i].origin) => pc[i] # "rejected"

\* C5, amended: the kind of body fixes the outcome, on every call.  A body
\* that is not JSON rejects the call at the parse with no value returned, for
\* both operations.  A JSON body never makes getLaunchById fail: it returns
\* the parsed value as is.  getLatestsLaunches returns undefined for a JSON
\* object without a docs member, fails on no JSON body but null, and on null
\* is rejected with a TypeError, no value returned.
C5_BadBodies ==
    \A i \in Calls :
        /\ body[i].origin = NotJSON =>
               pc[i] = "rejected" /\ err[i] = "SyntaxError" /\ result[i] = Undefined
        /\ (IsJSON(body[i].origin) /\ op[i] = "getLaunchById") =>
               /\ pc[i] # "rejected"
               /\ (pc[i] = "fulfilled" => result[i] = body[i].origin)
        /\ (IsJSON(body[i].origin) /\ op[i] = "getLatestsLaunches") =>
               IF body[i].origin = JNull
               THEN pc[i] = "rejected" /\ err[i] = "TypeError: cannot destructure"
                    /\ result[i] = Undefined
               ELSE /\ pc[i] = "fulfilled"
                    /\ (body[i].origin.t = "obj" /\ ~HasMember(body[i].origin, "docs"))
                           => result[i] = Undefined

C5_Witness ==
    \E i \in Calls :
        /\ op[i] = "getLatestsLaunches" /\ body[i].origin = JObj(<<>>)
        /\ res[i].status = 404
        /\ pc[i] = "fulfilled" /\ result[i] = Undefined

\* C6: every started invocation has handed exactly one request to fetch, at
\* every moment of its life and whatever became of it (an invocation not yet
\* started has handed none); and a rejected invocation stays rejected, with
\* the same reason: nothing retries, nothing recovers.
C6_OneRequest ==
    /\ [](\A i \in Calls :
              Cardinality(RequestsOf(i)) = IF pc[i] = "idle" THEN 0 ELSE 1)
    /\ [][\A i \in Calls :
              pc[i] = "rejected" => pc'[i] = "rejected" /\ err'[i] = err[i]]_vars

C6_Witness ==
    /\ pc[1] = "rejected" /\ err[1] = "TypeError: fetch failed"
    /\ pc[2] = "rejected" /\ err[2] = "SyntaxError"
    /\ res[2].status = 500
    /\ Len(sent) = 2

\* C7: with invocations in flight together and their responses arriving in
\* any order, an invocation that settled after reading its body settled as its
\* own operation and its own body decide, and its local value is the one its
\* own body gives: nothing of another invocation's response shows in it.
C7_OwnResponse ==
    \A i \in Calls :
        /\ (Settled(i) /\ body[i] # Unread) =>
               Outcome(i) = ExpectedOutcome(op[i], body[i].origin)
        /\ pc[i] \in {"L28", "L29"} => launch[i] = body[i].origin

\* Both in flight at once, the second answered first, each with its own value.
C7_Witness ==
    /\ op[1] = "getLaunchById" /\ op[2] = "getLaunchById"
    /\ console = <<[call |-> 2, v |-> DemoSat], [call |-> 1, v |-> Envelope(<<FalconSat>>)]>>
    /\ pc[1] = "fulfilled" /\ result[1] = Envelope(<<FalconSat>>)
    /\ pc[2] = "fulfilled" /\ result[2] = DemoSat

C9_LogOnce ==
    \A i \in Calls :
        /\ op[i] # "getLaunchById" => WritesOf(i) = {}
        /\ pc[i] \in {"idle", "L25", "L27", "L28", "rejected"} => WritesOf(i) = {}
        /\ (op[i] = "getLaunchById" /\ pc[i] \in {"L29", "fulfilled"}) =>
               /\ Cardinality(WritesOf(i)) = 1
               /\ body[i] # Unread
               /\ \A k \in WritesOf(i) : console[k].v = launch[i]
        /\ (op[i] = "getLaunchById" /\ pc[i] = "fulfilled") =>
               \A k \in WritesOf(i) : console[k].v = result[i]

C9_Witness ==
    /\ op[1] = "getLatestsLaunches" /\ pc[1] = "fulfilled"
    /\ op[2] = "getLaunchById" /\ pc[2] = "fulfilled"
    /\ console = <<[call |-> 2, v |-> DemoSat]>>
    /\ result[2] = DemoSat

\* C10: an invocation suspended at an await leaves it only when the transport
\* settles what it awaits (fetch resolves or rejects, the body read resolves or
\* rejects): it never completes on its own.  And if the transport settles every
\* request and every body read, every started invocation eventually settles,
\* fulfilled or rejected.
C10_SuspendsAndCompletes ==
    /\ [][\A i \in Calls :
              /\ (AwaitsFetch(i) /\ pc'[i] # pc[i]) =>
                     \/ AwaitsJson(i)' /\ res'[i] # NoResponse
                     \/ pc'[i] = "rejected" /\ err'[i] = "TypeError: fetch failed"
              /\ (AwaitsJson(i) /\ pc'[i] # pc[i]) =>
                     \/ body'[i] # Unread
                     \/ pc'[i] = "rejected" /\ err'[i] = "TypeError: body stream failed"]_vars
    /\ \A i \in Calls : (pc[i] # "idle") ~> Settled(i)

C10_Witness ==
    /\ pc[1] = "L4" /\ res[1] = NoResponse
    /\ pc[2] = "fulfilled"
====
